---- MODULE Spec2Model ----
(***************************************************************************)
(* Azure AD OAuth2 backend (social_core/backends/azuread.py).              *)
(*                                                                         *)
(* Three groups of operations are modelled, each with its own              *)
(* specification over the shared variables:                                *)
(*   SpecVerify : user_data / get_certificate (id_token verification)      *)
(*   SpecToken  : get_auth_token / refresh_token_params (token lifecycle)  *)
(*   SpecArgs   : auth_extra_arguments (extra authorization parameters)    *)
(***************************************************************************)
EXTENDS Integers, Sequences, FiniteSets, TLC

VARIABLES
    now,        \* wall clock, in ticks of 1/TicksPerSecond second
    jwks,       \* what the key-set endpoint answers now: status and keys
    ud,         \* the last user_data call: its inputs and everything it did
    udCalls,    \* user_data calls made so far whose header gave kid and alg
    jwksGets,   \* GET requests sent to the key-set endpoint so far
    store,      \* the user's stored bundle (social_user)
    pc,         \* per caller of get_auth_token: "idle", "refreshing", "done"
    call,       \* per caller: what its get_auth_token call read and did
    posted,     \* refresh POSTs sent to the token endpoint so far
    args        \* the last auth_extra_arguments call: inputs and result

vars == <<now, jwks, ud, udCalls, jwksGets, store, pc, call, posted, args>>

None == "None"

(***************************************************************************)
(* Bounds of the model.                                                    *)
(***************************************************************************)
TicksPerSecond == 2
MaxSeconds == 2
MaxCalls == 2
MaxPosts == 2

MaxTicks == MaxSeconds * TicksPerSecond

\* int(time.time()): the clock truncated to whole seconds
IntTime(t) == t \div TicksPerSecond

(***************************************************************************)
(* base64.  A character is its index in the alphabet: 0..61 are the        *)
(* letters and digits both alphabets share, 62 is '+', 63 is '/', and the  *)
(* two characters only the URL-safe alphabet has are 64 ('-') and 65 ('_').*)
(***************************************************************************)
Plus == 62
Slash == 63
Minus == 64
Underscore == 65

RECURSIVE SelectStd(_)
\* binascii.a2b_base64, non-strict: characters outside the standard alphabet
\* are discarded
SelectStd(s) ==
    IF s = <<>> THEN <<>>
    ELSE IF Head(s) <= Slash THEN <<Head(s)>> \o SelectStd(Tail(s))
    ELSE SelectStd(Tail(s))

RECURSIVE Sextets2Bytes(_)
\* groups of four 6-bit values to three bytes; a final group of two or three
\* values (its padding implied) gives one or two bytes
Sextets2Bytes(q) ==
    IF Len(q) < 2 THEN <<>>
    ELSE IF Len(q) = 2 THEN
        << q[1] * 4 + q[2] \div 16 >>
    ELSE IF Len(q) = 3 THEN
        << q[1] * 4 + q[2] \div 16, (q[2] % 16) * 16 + q[3] \div 4 >>
    ELSE << q[1] * 4 + q[2] \div 16,
            (q[2] % 16) * 16 + q[3] \div 4,
            (q[3] % 4) * 64 + q[4] >>
         \o Sextets2Bytes(SubSeq(q, 5, Len(q)))

BinasciiError == [err |-> "ValueError"]

\* base64.b64decode(s): standard alphabet, padding required
b64decode(s) ==
    LET q == SelectStd(s)
    IN  IF Len(q) % 4 # 0 THEN BinasciiError
        ELSE [err |-> None, bytes |-> Sextets2Bytes(q)]

\* the '-' -> '+', '_' -> '/' translation of base64.urlsafe_b64decode
UrlTranslate(s) ==
    [i \in 1..Len(s) |->
        IF s[i] = Minus THEN Plus ELSE IF s[i] = Underscore THEN Slash ELSE s[i]]

\* jwt.utils.base64url_decode: pad to a multiple of four, URL-safe alphabet
base64url_decode(s) ==
    IF Len(s) % 4 = 1 THEN BinasciiError
    ELSE [err |-> None, bytes |-> Sextets2Bytes(UrlTranslate(s))]

RECURSIVE Bytes2Sextets(_)
Bytes2Sextets(b) ==
    IF b = <<>> THEN <<>>
    ELSE IF Len(b) = 1 THEN
        << b[1] \div 4, (b[1] % 4) * 16 >>
    ELSE IF Len(b) = 2 THEN
        << b[1] \div 4, (b[1] % 4) * 16 + b[2] \div 16, (b[2] % 16) * 4 >>
    ELSE << b[1] \div 4,
            (b[1] % 4) * 16 + b[2] \div 16,
            (b[2] % 16) * 4 + b[3] \div 64,
            b[3] % 64 >>
         \o Bytes2Sextets(SubSeq(b, 4, Len(b)))

\* the segment of a compact token: base64url without padding
Base64UrlEncode(b) ==
    LET q == Bytes2Sextets(b)
    IN  [i \in 1..Len(q) |->
            IF q[i] = Plus THEN Minus ELSE IF q[i] = Slash THEN Underscore ELSE q[i]]

(***************************************************************************)
(* Header documents.  A text is its sequence of bytes (UTF-8).             *)
(***************************************************************************)
\* {"alg":"RS256","kid":"ka1"}
TextRS_ka1 ==
    <<123, 34, 97, 108, 103, 34, 58, 34, 82, 83, 50, 53, 54, 34, 44, 34,
      107, 105, 100, 34, 58, 34, 107, 97, 49, 34, 125>>
\* {"alg":"RS256","kid":"kb2"}
TextRS_kb2 ==
    <<123, 34, 97, 108, 103, 34, 58, 34, 82, 83, 50, 53, 54, 34, 44, 34,
      107, 105, 100, 34, 58, 34, 107, 98, 50, 34, 125>>
\* {"alg":"RS256","kid":"k1"}: 26 bytes, 35 characters once encoded
TextRS_k1 ==
    <<123, 34, 97, 108, 103, 34, 58, 34, 82, 83, 50, 53, 54, 34, 44, 34,
      107, 105, 100, 34, 58, 34, 107, 49, 34, 125>>
\* {"alg":"RS256","kid":"k?1"}: 36 characters once encoded, one of them '_'
TextRS_kq1 ==
    <<123, 34, 97, 108, 103, 34, 58, 34, 82, 83, 50, 53, 54, 34, 44, 34,
      107, 105, 100, 34, 58, 34, 107, 63, 49, 34, 125>>
\* {"alg":"none", "kid":"ka1"}
TextNone_ka1 ==
    <<123, 34, 97, 108, 103, 34, 58, 34, 110, 111, 110, 101, 34, 44, 32, 34,
      107, 105, 100, 34, 58, 34, 107, 97, 49, 34, 125>>
\* {"alg":"HS256","kid":"ka1"}
TextHS_ka1 ==
    <<123, 34, 97, 108, 103, 34, 58, 34, 72, 83, 50, 53, 54, 34, 44, 34,
      107, 105, 100, 34, 58, 34, 107, 97, 49, 34, 125>>
\* {"alg":"RS256"}
TextNoKid ==
    <<123, 34, 97, 108, 103, 34, 58, 34, 82, 83, 50, 53, 54, 34, 125>>
\* {"kid" : "ka1"}
TextNoAlg ==
    <<123, 34, 107, 105, 100, 34, 32, 58, 32, 34, 107, 97, 49, 34, 125>>
\* not json at all
TextNotJson ==
    <<110, 111, 116, 32, 106, 115, 111, 110, 32, 97, 116, 32, 97, 108, 108>>

\* what json.loads makes of each text that is a JSON object
JsonDocs ==
    { [text |-> TextRS_ka1,   value |-> [alg |-> "RS256", kid |-> "ka1"]],
      [text |-> TextRS_kb2,   value |-> [alg |-> "RS256", kid |-> "kb2"]],
      [text |-> TextRS_k1,    value |-> [alg |-> "RS256", kid |-> "k1"]],
      [text |-> TextRS_kq1,   value |-> [alg |-> "RS256", kid |-> "k?1"]],
      [text |-> TextNone_ka1, value |-> [alg |-> "none", kid |-> "ka1"]],
      [text |-> TextHS_ka1,   value |-> [alg |-> "HS256", kid |-> "ka1"]],
      [text |-> TextNoKid,    value |-> [alg |-> "RS256"]],
      [text |-> TextNoAlg,    value |-> [kid |-> "ka1"]] }

HeaderTexts ==
    {d.text : d \in JsonDocs} \cup {TextNotJson}

\* json.loads(bytes.decode()): a ValueError for anything that is no document
json_loads(b) ==
    IF \E d \in JsonDocs : d.text = b
    THEN [err |-> None, value |-> (CHOOSE d \in JsonDocs : d.text = b).value]
    ELSE [err |-> "ValueError"]

\* the header segments tokens are issued with
HeaderSegments == {Base64UrlEncode(t) : t \in HeaderTexts}

\* json.loads(base64.b64decode(segment).decode()), lines 129-131
LoadHeader(seg) ==
    LET raw == b64decode(seg)
    IN  IF raw.err # None THEN [err |-> raw.err] ELSE json_loads(raw.bytes)

\* the header as PyJWT reads it (base64url_decode, then json.loads)
JwtLoadHeader(seg) ==
    LET raw == base64url_decode(seg)
    IN  IF raw.err # None THEN [err |-> "DecodeError"]
        ELSE LET doc == json_loads(raw.bytes)
             IN  IF doc.err # None THEN [err |-> "DecodeError"] ELSE doc

\* both readings of every segment, computed once
StdHeader == [seg \in HeaderSegments |-> LoadHeader(seg)]
JwtHeader == [seg \in HeaderSegments |-> JwtLoadHeader(seg)]

(***************************************************************************)
(* Keys, certificates and the key-set endpoint.                            *)
(***************************************************************************)
Keys == {"K1", "K2"}

\* an x5c entry (base64 DER) and the key its certificate carries
X5cKey == [c \in {"MIIC.K1", "MIIC.K2"} |-> IF c = "MIIC.K1" THEN "K1" ELSE "K2"]

\* the documents the endpoint may publish ("keys" of the JSON body): the
\* same kid twice, several x5c entries, a kid that is absent, no key at all
KeySetDocs ==
    { << [kid |-> "ka1", x5c |-> <<"MIIC.K1", "MIIC.K2">>],
         [kid |-> "kb2", x5c |-> <<"MIIC.K2">>] >>,
      << [kid |-> "kb2", x5c |-> <<"MIIC.K1">>],
         [kid |-> "ka1", x5c |-> <<"MIIC.K2">>],
         [kid |-> "ka1", x5c |-> <<"MIIC.K1">>] >>,
      << [kid |-> "kb2", x5c |-> <<"MIIC.K2", "MIIC.K1">>] >>,
      << [kid |-> "k1", x5c |-> <<"MIIC.K1">>],
         [kid |-> "k?1", x5c |-> <<"MIIC.K1">>] >>,
      << >> }

HttpStatuses == {200, 500}

\* self.setting("SOCIAL_AUTH_AZUREAD_OAUTH2_KEY"): the configured client id
ClientId == "client-1"

(***************************************************************************)
(* Identity tokens: header segment, claims, signature.  A signature is     *)
(* the private key that made it and the header and claims it was made      *)
(* over.                                                                   *)
(***************************************************************************)
Payloads ==
    [aud : {ClientId, "client-2"}, exp : 1..(MaxSeconds - 1), upn : {"u@example.org"}]

OtherPayload(p) ==
    [p EXCEPT !.aud = IF p.aud = ClientId THEN "client-2" ELSE ClientId]

Tokens ==
    UNION { UNION { { [header |-> h, payload |-> p,
                       sig |-> [key |-> "K1", header |-> h, payload |-> p]],
                      [header |-> h, payload |-> p,
                       sig |-> [key |-> "K2", header |-> h, payload |-> p]],
                      [header |-> h, payload |-> p,
                       sig |-> [key |-> "K1", header |-> h, payload |-> OtherPayload(p)]] }
                    : p \in Payloads }
            : h \in HeaderSegments }

(***************************************************************************)
(* get_certificate                                                         *)
(***************************************************************************)
RECURSIVE FindKey_last(_, _)
\* the loop without its break: the last entry with this kid
FindKey_last(keys, kid) ==
    IF keys = <<>> THEN [found |-> FALSE]
    ELSE LET rest == FindKey_last(Tail(keys), kid)
         IN  IF rest.found THEN rest
             ELSE IF Head(keys).kid = kid THEN [found |-> TRUE, key |-> Head(keys)]
             ELSE [found |-> FALSE]

RECURSIVE FindKey(_, _)
\* the for/else of lines 110-115: the first entry with this kid, or none
FindKey(keys, kid) ==
    IF keys = <<>> THEN [found |-> FALSE]
    ELSE IF Head(keys).kid = kid THEN [found |-> TRUE, key |-> Head(keys)]
    ELSE FindKey(Tail(keys), kid)

\* key['x5c'][-1]
PickX5c_last(key) == key.x5c[Len(key.x5c)]

\* key['x5c'][0], line 112
PickX5c(key) == key.x5c[1]

\* lines 117-119
PemWrap(x5c) ==
    <<"-----BEGIN CERTIFICATE-----", x5c, "-----END CERTIFICATE-----">>

\* load_pem_x509_certificate, lines 121-122
load_pem_x509_certificate(pem) == [x5c |-> pem[2], key |-> X5cKey[pem[2]]]

\* a failed request sent once more before giving up
Request_retry(endpoint) ==
    IF endpoint.status = 200
    THEN [exc |-> None, gets |-> 1, keys |-> endpoint.keys]
    ELSE [exc |-> "HTTPError", gets |-> 2]

\* self.request(..., method="GET"); resp.raise_for_status(): one request,
\* an HTTPError for a non-success status
Request(endpoint) ==
    IF endpoint.status = 200
    THEN [exc |-> None, gets |-> 1, keys |-> endpoint.keys]
    ELSE [exc |-> "HTTPError", gets |-> 1]

get_certificate(kid, endpoint) ==
    LET resp == Request(endpoint)
    IN  IF resp.exc # None THEN [exc |-> resp.exc, gets |-> resp.gets]
        ELSE LET hit == FindKey(resp.keys, kid)
             IN  IF ~hit.found
                 THEN [exc |-> "DecodeError", gets |-> resp.gets]
                 ELSE [exc |-> None, gets |-> resp.gets,
                       cert |-> load_pem_x509_certificate(PemWrap(PickX5c(hit.key)))]

\* certificate.public_key(), line 143
public_key(cert) == [type |-> "RSAPublicKey", key |-> cert.key]

(***************************************************************************)
(* jwt.decode (PyJWT 1.x, the releases that export ExpiredSignature):      *)
(* the header is read again from the token, the algorithm is checked       *)
(* against `algorithms`, the key is prepared for the algorithm, the        *)
(* signature is verified, then exp and aud are validated, in this order.   *)
(***************************************************************************)
\* `alg not in algorithms` with algorithms a str: a substring test, which
\* among the names used here is equality
AlgAllowed(alg, algorithms) == alg = algorithms

\* Algorithm.prepare_key with the certificate's RSA public key object:
\* NoneAlgorithm wants no key, HMACAlgorithm wants bytes or text
PrepareKey(alg, key) ==
    IF alg = "none" THEN "InvalidKeyError"
    ELSE IF alg = "HS256" THEN "TypeError"
    ELSE None

\* RSAAlgorithm.verify: made by the private key of this public key, over
\* this header and these claims
VerifySignature(tok, key) ==
    /\ tok.sig.key = key.key
    /\ tok.sig.header = tok.header
    /\ tok.sig.payload = tok.payload

\* _validate_exp: `if exp < (now - leeway)`, now in whole seconds
Expired(exp, nowSec) == exp < nowSec

\* _validate_aud, for a claim that is a single string
AudienceOk(aud, audience) == aud = audience

Raise(e) == [exc |-> e, claims |-> <<>>]

jwt_decode(tok, key, algorithms, audience, nowSec) ==
    LET h == JwtHeader[tok.header]
    IN  IF h.err # None THEN Raise("DecodeError")
        ELSE IF "alg" \notin DOMAIN h.value THEN Raise("TypeError")
        ELSE IF ~AlgAllowed(h.value.alg, algorithms)
            THEN Raise("InvalidAlgorithmError")
        ELSE IF PrepareKey(h.value.alg, key) # None
            THEN Raise(PrepareKey(h.value.alg, key))
        ELSE IF ~VerifySignature(tok, key) THEN Raise("DecodeError")
        ELSE IF Expired(tok.payload.exp, nowSec)
            THEN Raise("ExpiredSignatureError")
        ELSE IF ~AudienceOk(tok.payload.aud, audience)
            THEN Raise("InvalidAudienceError")
        ELSE [exc |-> None, claims |-> <<tok.payload>>]

(***************************************************************************)
(* user_data                                                               *)
(***************************************************************************)
\* except (DecodeError, ExpiredSignature), line 147
Caught(exc) == exc \in {"DecodeError", "ExpiredSignatureError"}

\* what a call records: the exception that reached the caller and the one it
\* wraps, the claims returned, the GETs sent, whether jwt_decode was called
\* and with which `algorithms`, and the x5c entry the key came from
Outcome(exc, cause, claims, gets, decoded, algorithms, x5c) ==
    [exc |-> exc, cause |-> cause, claims |-> claims, gets |-> gets,
     decoded |-> decoded, algorithms |-> algorithms, x5c |-> x5c]

\* lines 141-148, once the certificate is there
DecodeWith(tok, cert, algorithm, gets, t) ==
    LET d == jwt_decode(tok, public_key(cert), algorithm, ClientId, IntTime(t))
    IN  IF d.exc = None
        THEN Outcome(None, None, d.claims, gets, TRUE, algorithm, cert.x5c)
        ELSE IF Caught(d.exc)
        THEN Outcome("AuthTokenError", d.exc, <<>>, gets, TRUE, algorithm, cert.x5c)
        ELSE Outcome(d.exc, None, <<>>, gets, TRUE, algorithm, cert.x5c)

\* lines 137-148
Verify(tok, key_id, algorithm, endpoint, t) ==
    LET got == get_certificate(key_id, endpoint)
    IN  IF got.exc = None
        THEN DecodeWith(tok, got.cert, algorithm, got.gets, t)
        ELSE IF Caught(got.exc)
        THEN Outcome("AuthTokenError", got.exc, <<>>, got.gets, FALSE, None, None)
        ELSE Outcome(got.exc, None, <<>>, got.gets, FALSE, None, None)

\* lines 124-148
user_data(tok, endpoint, t) ==
    LET jwt_header == StdHeader[tok.header]
    IN  IF jwt_header.err # None
        THEN Outcome(jwt_header.err, None, <<>>, 0, FALSE, None, None)
        ELSE IF "kid" \notin DOMAIN jwt_header.value
        THEN Outcome("KeyError", None, <<>>, 0, FALSE, None, None)
        ELSE IF "alg" \notin DOMAIN jwt_header.value
        THEN Outcome("KeyError", None, <<>>, 0, FALSE, None, None)
        ELSE Verify(tok, jwt_header.value.kid, jwt_header.value.alg, endpoint, t)

(***************************************************************************)
(* Verification: the state machine.  user_data is one synchronous call; ud *)
(* holds the call just made and is cleared by the next step of the         *)
(* environment, so that while ud is a call, now and jwks are what the call *)
(* saw.                                                                    *)
(***************************************************************************)
NoCall == [op |-> "none"]

\* the header, read as lines 129-135 read it, gives a kid and an alg
HasKidAlg(tok) ==
    /\ StdHeader[tok.header].err = None
    /\ {"kid", "alg"} \subseteq DOMAIN StdHeader[tok.header].value

TokenIdle ==
    /\ store = [access_token |-> "t0", refresh_token |-> "t1", expires_on |-> 0]
    /\ pc = << >>
    /\ call = << >>
    /\ posted = 0

ArgsIdle == args = NoCall

VerifyIdle ==
    /\ jwks = [status |-> 200, keys |-> << >>]
    /\ ud = NoCall
    /\ udCalls = 0
    /\ jwksGets = 0

InitVerify ==
    /\ now = 0
    /\ jwks \in [status : HttpStatuses, keys : KeySetDocs]
    /\ ud = NoCall
    /\ udCalls = 0
    /\ jwksGets = 0
    /\ TokenIdle
    /\ ArgsIdle

Call_user_data(tok) ==
    /\ udCalls < MaxCalls
    /\ ud' = [op |-> "user_data", token |-> tok,
              out |-> user_data(tok, jwks, now)]
    /\ udCalls' = IF HasKidAlg(tok) THEN udCalls + 1 ELSE udCalls
    /\ jwksGets' = jwksGets + ud'.out.gets
    /\ UNCHANGED <<now, jwks, store, pc, call, posted, args>>

\* the provider rotates its keys, or its endpoint starts or stops failing
PublishKeys(status, keys) ==
    /\ jwks' = [status |-> status, keys |-> keys]
    /\ jwks' # jwks
    /\ ud' = NoCall
    /\ UNCHANGED <<now, udCalls, jwksGets, store, pc, call, posted, args>>

TickVerify ==
    /\ now < MaxTicks
    /\ now' = now + 1
    /\ ud' = NoCall
    /\ UNCHANGED <<jwks, udCalls, jwksGets, store, pc, call, posted, args>>

NextVerify ==
    \/ \E tok \in Tokens : Call_user_data(tok)
    \/ \E status \in HttpStatuses, keys \in KeySetDocs : PublishKeys(status, keys)
    \/ TickVerify

SpecVerify == InitVerify /\ [][NextVerify]_vars

(***************************************************************************)
(* Verification: properties.                                               *)
(***************************************************************************)
Called == ud.op = "user_data"

\* the header of the token of the last call, as the token format defines it
\* (base64url, unpadded)
TokenHeader == JwtHeader[ud.token.header]

HeaderGives(name) ==
    /\ TokenHeader.err = None
    /\ name \in DOMAIN TokenHeader.value

\* positions of the published keys whose kid is exactly k
KeysWithKid(k) == {i \in 1..Len(jwks.keys) : jwks.keys[i].kid = k}

FirstOf(S) == CHOOSE i \in S : \A j \in S : i <= j

\* the signature of the last call's token was made over this very header and
\* these very claims by the private key of the first certificate of the
\* first published key with the header's kid
SignedByPublishedKey ==
    /\ HeaderGives("kid")
    /\ KeysWithKid(TokenHeader.value.kid) # {}
    /\ ud.token.sig.header = ud.token.header
    /\ ud.token.sig.payload = ud.token.payload
    /\ ud.token.sig.key =
         X5cKey[jwks.keys[FirstOf(KeysWithKid(TokenHeader.value.kid))].x5c[1]]

ReturnsExactlyOnSuccess ==
    /\ ud.out.exc = None => ud.out.claims = <<ud.token.payload>>
    /\ ud.out.exc # None => ud.out.claims = << >>

C2_FailuresAreAuthTokenError ==
    Called /\ ud.out.exc \notin {None, "HTTPError"}
        => ud.out.exc = "AuthTokenError"

\* C3: a token made of unpadded base64url segments, signed by the key whose
\* certificate the endpoint serves under the header's kid, unexpired and with
\* the configured audience, is accepted and its claims returned unmodified,
\* whatever the length and characters of its header segment.
C3_RoundTrip ==
    ( /\ Called
      /\ jwks.status = 200
      /\ HeaderGives("alg")
      /\ TokenHeader.value.alg = "RS256"
      /\ SignedByPublishedKey
      /\ ud.token.payload.aud = ClientId
      /\ ud.token.payload.exp * TicksPerSecond > now )
        => /\ ud.out.exc = None
           /\ ud.out.claims = <<ud.token.payload>>

\* C6: get_certificate uses the first x5c entry of the first key whose kid is
\* the one asked for; with no such key the call ends in AuthTokenError
\* wrapping the DecodeError, and the token is not decoded.
C6_FirstMatchingKey ==
    (Called /\ HasKidAlg(ud.token) /\ jwks.status = 200) =>
        LET hits == KeysWithKid(StdHeader[ud.token.header].value.kid)
        IN  IF hits = {}
            THEN /\ ud.out.exc = "AuthTokenError"
                 /\ ud.out.cause = "DecodeError"
                 /\ ~ud.out.decoded
                 /\ ud.out.claims = << >>
            ELSE /\ ud.out.decoded
                 /\ ud.out.x5c = jwks.keys[FirstOf(hits)].x5c[1]

\* the kid is published twice with different certificates, and the first is
\* the one used
C6_SecondEntryIgnored ==
    /\ Called /\ HasKidAlg(ud.token) /\ jwks.status = 200
    /\ \E i, j \in KeysWithKid(StdHeader[ud.token.header].value.kid) :
          /\ i < j
          /\ jwks.keys[i].x5c[1] # jwks.keys[j].x5c[1]
          /\ ud.out.x5c = jwks.keys[i].x5c[1]
    /\ ud.out.exc = None

\* C7: a token declaring alg "none" or an HMAC algorithm is rejected, and
\* jwt_decode is never handed such an algorithm as the one to accept.
C7_AlgorithmRestricted ==
    Called =>
        /\ (HeaderGives("alg") /\ TokenHeader.value.alg \in {"none", "HS256"})
              => ud.out.exc # None
        /\ ud.out.decoded => ud.out.algorithms \notin {"none", "HS256"}

\* C9 as stated: every call whose header parses sends exactly one GET.
C9_OneGetPerParsedHeader ==
    (Called /\ StdHeader[ud.token.header].err = None) => ud.out.gets = 1

\* C9 amended: every call whose header parses and holds both kid and alg
\* sends exactly one GET, whatever earlier calls fetched; any other call
\* sends none; a non-success answer ends the call before the token is
\* decoded, with the HTTP error and not AuthTokenError.
C9_OneGetPerCall ==
    /\ jwksGets = udCalls
    /\ Called =>
        /\ ud.out.gets = IF HasKidAlg(ud.token) THEN 1 ELSE 0
        /\ (HasKidAlg(ud.token) /\ jwks.status # 200) =>
              /\ ~ud.out.decoded
              /\ ud.out.exc = "HTTPError"
              /\ ud.out.claims = << >>

\* a second call, made while the endpoint fails
C9_SecondCallFails ==
    /\ Called
    /\ udCalls = MaxCalls
    /\ jwksGets = MaxCalls
    /\ jwks.status # 200
    /\ ud.out.exc = "HTTPError"

(***************************************************************************)
(* Token lifecycle: get_auth_token.  A call reads the stored bundle and    *)
(* the clock; if the token has expired it posts a refresh to the token     *)
(* endpoint and waits for the answer.  Callers run independently; the      *)
(* application, not this backend, may save a bundle (Persist).             *)
(***************************************************************************)
Callers == {"c1", "c2"}

\* what the application may have stored for the user; the two tokens of a
\* bundle may be the same string or not
Bundles ==
    [access_token : {"t0"}, refresh_token : {"t0", "t1"},
     expires_on : 0..MaxSeconds]

\* the bodies the token endpoint may answer a refresh with
RefreshResponses ==
    [access_token : {"t2"}, refresh_token : {"t3"},
     expires_on : {MaxSeconds + 1}]

\* self.setting('KEY'), 'SECRET', 'RESOURCE'
ClientSecret == "secret-1"
ResourceSetting == "res-A"

\* expires_on < int(time.time())
IsExpired_strict(expires_on, t) == expires_on < IntTime(t)

\* expires_on <= int(time.time()), line 182
IsExpired(expires_on, t) == expires_on <= IntTime(t)

\* refresh_token_params, lines 167-174
refresh_token_params(token) ==
    [client_id |-> ClientId,
     client_secret |-> ClientSecret,
     refresh_token |-> token,
     grant_type |-> "refresh_token",
     resource |-> ResourceSetting]

\* the token given to self.refresh_token, line 183
RefreshArgument(social_user) == social_user.access_token

\* access_token = new_token_response['access_token'], line 184
RefreshedToken(new_token_response) == new_token_response.access_token

\* the refreshed bundle saved by the call itself
StoredAfter_saved(social_user, new_token_response) == new_token_response

\* what get_auth_token leaves in the user's stored bundle: it assigns
\* nothing to it, lines 176-185
StoredAfter(social_user, new_token_response) == social_user

CallIdle == [op |-> "none"]

\* lines 179-183: read, compare, and either return or post the refresh
get_auth_token(c) ==
    /\ pc[c] = "idle"
    /\ IF IsExpired(store.expires_on, now)
       THEN /\ posted < MaxPosts
            /\ pc' = [pc EXCEPT ![c] = "refreshing"]
            /\ call' = [call EXCEPT ![c] =
                  [op |-> "get_auth_token", read |-> store, expired |-> TRUE,
                   refreshes |-> 1,
                   form |-> refresh_token_params(RefreshArgument(store)),
                   response |-> None, exc |-> None, result |-> None]]
            /\ posted' = posted + 1
       ELSE /\ pc' = [pc EXCEPT ![c] = "done"]
            /\ call' = [call EXCEPT ![c] =
                  [op |-> "get_auth_token", read |-> store, expired |-> FALSE,
                   refreshes |-> 0, form |-> None,
                   response |-> None, exc |-> None,
                   result |-> store.access_token]]
            /\ posted' = posted
    /\ UNCHANGED <<now, jwks, ud, udCalls, jwksGets, store, args>>

\* lines 183-185: the token endpoint answers, the new access token is
\* returned
RefreshReturns(c, new_token_response) ==
    /\ pc[c] = "refreshing"
    /\ pc' = [pc EXCEPT ![c] = "done"]
    /\ call' = [call EXCEPT ![c].response = new_token_response,
                            ![c].result = RefreshedToken(new_token_response)]
    /\ store' = StoredAfter(store, new_token_response)
    /\ UNCHANGED <<now, jwks, ud, udCalls, jwksGets, posted, args>>

\* the token endpoint answers with a non-success status: refresh_token
\* raises and get_auth_token with it
RefreshFails(c) ==
    /\ pc[c] = "refreshing"
    /\ pc' = [pc EXCEPT ![c] = "done"]
    /\ call' = [call EXCEPT ![c].exc = "HTTPError"]
    /\ UNCHANGED <<now, jwks, ud, udCalls, jwksGets, store, posted, args>>

\* the caller takes the result
Finish(c) ==
    /\ pc[c] = "done"
    /\ pc' = [pc EXCEPT ![c] = "idle"]
    /\ call' = [call EXCEPT ![c] = CallIdle]
    /\ UNCHANGED <<now, jwks, ud, udCalls, jwksGets, store, posted, args>>

\* the application saves a bundle for the user
Persist(bundle) ==
    /\ store' = bundle
    /\ store' # store
    /\ UNCHANGED <<now, jwks, ud, udCalls, jwksGets, pc, call, posted, args>>

TickToken ==
    /\ now < MaxTicks
    /\ now' = now + 1
    /\ UNCHANGED <<jwks, ud, udCalls, jwksGets, store, pc, call, posted, args>>

InitToken ==
    /\ now = 0
    /\ store \in Bundles
    /\ pc = [c \in Callers |-> "idle"]
    /\ call = [c \in Callers |-> CallIdle]
    /\ posted = 0
    /\ VerifyIdle
    /\ ArgsIdle

NextToken ==
    \/ \E c \in Callers : get_auth_token(c)
    \/ \E c \in Callers, r \in RefreshResponses : RefreshReturns(c, r)
    \/ \E c \in Callers : RefreshFails(c)
    \/ \E c \in Callers : Finish(c)
    \/ \E b \in Bundles : Persist(b)
    \/ TickToken

SpecToken == InitToken /\ [][NextToken]_vars

(***************************************************************************)
(* Token lifecycle: properties.                                            *)
(***************************************************************************)
\* the stored token has expired at clock value t (t in ticks)
ExpiredAt(bundle, t) == bundle.expires_on * TicksPerSecond <= t

\* caller c starts a get_auth_token call in this step
Starts(c) == pc[c] = "idle" /\ pc'[c] # "idle"

C4_Branch ==
    \A c \in Callers : Starts(c) =>
        IF ExpiredAt(store, now)
        THEN /\ pc'[c] = "refreshing"
             /\ call'[c].refreshes = 1
             /\ posted' = posted + 1
        ELSE /\ pc'[c] = "done"
             /\ call'[c].refreshes = 0
             /\ posted' = posted
             /\ call'[c].exc = None
             /\ call'[c].result = store.access_token

C4_Result ==
    \A c \in Callers : (pc[c] = "done" /\ call[c].exc = None) =>
        IF call[c].refreshes = 0
        THEN call[c].result = call[c].read.access_token
        ELSE /\ call[c].refreshes = 1
             /\ call[c].result = call[c].response.access_token

\* C4: a call that finds expires_on > now returns the stored access token
\* and posts no refresh; a call that finds expires_on <= now (equality
\* included) posts exactly one refresh and returns the access_token of the
\* answer; no step of a call posts a second one.
C4_TwoOutcomes ==
    /\ [][C4_Branch]_vars
    /\ [][(\A c \in Callers : ~Starts(c)) => posted' = posted]_vars
    /\ [](C4_Result)

\* a call made at the very instant expires_on names waits for its refresh
C4_RefreshAtExpiry ==
    \E c \in Callers :
        /\ pc[c] = "refreshing"
        /\ call[c].read.expires_on > 0
        /\ now = call[c].read.expires_on * TicksPerSecond

\* C5: the refresh_token parameter of the refresh a call posts is the
\* stored refresh token, whenever the stored access and refresh tokens
\* differ.
C5_FormCarriesRefreshToken ==
    \A c \in Callers :
        ( /\ call[c].op = "get_auth_token"
          /\ call[c].refreshes = 1
          /\ call[c].read.access_token # call[c].read.refresh_token )
            => call[c].form.refresh_token = call[c].read.refresh_token

\* C10: no step of a get_auth_token call changes the stored bundle; so an
\* expired bundle stays expired until the application saves another, and
\* every call begun meanwhile posts a refresh.
C10_StoreUntouched ==
    /\ [][(pc' # pc \/ call' # call) => store' = store]_vars
    /\ [][(ExpiredAt(store, now) /\ ~(\E b \in Bundles : Persist(b)))
            => ExpiredAt(store', now')]_vars
    /\ [][\A c \in Callers : (Starts(c) /\ ExpiredAt(store, now))
            => (pc'[c] = "refreshing" /\ posted' = posted + 1)]_vars

\* two calls for the same user overlap: one has its refreshed token, the
\* other still waits, and the stored bundle is the expired one both read
C10_BothRefreshed ==
    /\ pc["c1"] = "done" /\ call["c1"].result = "t2"
    /\ pc["c2"] = "refreshing"
    /\ call["c1"].read = store /\ call["c2"].read = store
    /\ ExpiredAt(store, now)
    /\ posted = MaxPosts

(***************************************************************************)
(* auth_extra_arguments.  A dictionary is a function from its keys.        *)
(***************************************************************************)
ArgNames == {"resource", "prompt"}

\* the dictionaries over ArgNames with values in V
Dicts(V) == UNION {[D -> V] : D \in SUBSET ArgNames}

\* BaseOAuth2.auth_extra_arguments: the AUTH_EXTRA_ARGUMENTS setting, each
\* entry replaced by the request's value for the same name if it has one
super_auth_extra_arguments(defaults, data) ==
    [k \in DOMAIN defaults |-> IF k \in DOMAIN data THEN data[k] ELSE defaults[k]]

\* `if resource:`: None and the empty string are false
Truthy(resource) == resource \notin {None, ""}

\* extra_arguments.update({'resource': resource}), line 156
Update(d, k, v) == [x \in DOMAIN d \cup {k} |-> IF x = k THEN v ELSE d[x]]

\* lines 150-157
auth_extra_arguments(defaults, data, resource) ==
    LET extra_arguments == super_auth_extra_arguments(defaults, data)
    IN  IF Truthy(resource)
        THEN Update(extra_arguments, "resource", resource)
        ELSE extra_arguments

Call_auth_extra_arguments(defaults, data, resource) ==
    /\ args' = [op |-> "auth_extra_arguments", defaults |-> defaults,
                data |-> data, resource |-> resource,
                result |-> auth_extra_arguments(defaults, data, resource)]
    /\ UNCHANGED <<now, jwks, ud, udCalls, jwksGets, store, pc, call, posted>>

InitArgs ==
    /\ now = 0
    /\ args = NoCall
    /\ VerifyIdle
    /\ TokenIdle

NextArgs ==
    \E defaults \in Dicts({"d1", "d2"}), data \in Dicts({"q1", "q2"}),
       resource \in {None, "", "res-A"} :
        Call_auth_extra_arguments(defaults, data, resource)

SpecArgs == InitArgs /\ [][NextArgs]_vars

\* C8: 'resource' is set to the RESOURCE setting only when the setting is
\* configured and the request supplied no 'resource'; a 'resource' the
\* request supplied is never replaced by the setting; without the setting
\* the call adds no 'resource'.
C8_CallerResourceKept ==
    args.op = "auth_extra_arguments" =>
        LET base == super_auth_extra_arguments(args.defaults, args.data)
        IN  /\ ("resource" \in DOMAIN args.data /\ "resource" \in DOMAIN base)
                 => args.result["resource"] = args.data["resource"]
            /\ ~Truthy(args.resource) => args.result = base
            /\ args.result # base =>
                 /\ Truthy(args.resource)
                 /\ "resource" \notin DOMAIN args.data
                 /\ args.result = Update(base, "resource", args.resource)

====
